---- MODULE Spec2Model ----
(***************************************************************************)
(* Connection lifecycle manager of redis-singleton (src/src/index.ts).     *)
(*                                                                         *)
(* The module-level state (client, connectionPromise, connectionError) is  *)
(* driven by connect / getClient / disconnect calls of application code    *)
(* and by the callbacks the manager registers on every underlying client   *)
(* it creates ('error', 'end', handshake then/catch, the settle finalizer).*)
(* JavaScript runs one job at a time: a macrotask (an I/O completion or    *)
(* event, or application code entering from the event loop) is followed    *)
(* by the microtask queue `jobs`, drained in FIFO order before the next    *)
(* macrotask.                                                              *)
(***************************************************************************)
EXTENDS Integers, Sequences, FiniteSets, TLC

\* ---------------------------------------------------------------- bounds
MaxClients == 2       \* underlying clients createClient may hand out
MaxCallers == 2       \* logical callers of the public API

Clients == 1..MaxClients
Callers == 1..MaxCallers

\* ------------------------------------------------------------ value space
Null    == 0          \* JavaScript null for client / promise references
NoError == "null"     \* JavaScript null for connectionError

ClosedMsg       == "Redis connection closed."
HandshakeErrors == {"connect ECONNREFUSED"}
SocketErrors    == {"Socket closed unexpectedly"}
QuitErrors      == {"The client is closed", "Error during disconnection"}

VARIABLES
  client,             \* index.ts:42  activeHandle
  connectionPromise,  \* index.ts:43  pendingAttempt (promise of attempt c is named c)
  connectionError,    \* index.ts:44  lastError (the error's message)
  clients,            \* the underlying clients created so far
  promises,           \* state of the future created for each attempt
  waiters,            \* callers awaiting each attempt's future, in order
  callers,            \* position of each logical caller
  jobs,               \* microtask queue
  running,            \* caller whose code is running in the current job
  last,               \* what the step that led to this state did
  handed,             \* handles getClient has returned so far
  expectClosed,       \* handles returned before a disconnect that has completed
  quietSinceDisc,     \* a disconnect completed and no connect was called since
  failWindow,         \* attempt whose handshake failed, until next connect/disconnect
  termWindow,         \* unsolicited termination seen, until next connect/disconnect
  observed,           \* outcomes the awaiting callers have seen of each future
  fresh,              \* attempt just fulfilled, nothing but its finalizer, resumptions,
                      \* connect and getClient calls having run since
  chained,            \* state of the futures chained to each attempt
  bornInDisc,         \* clients created by a connect issued while a disconnect
                      \* was suspended in quit()
  input,              \* the value handed to setJson
  store,              \* the server's keyspace: the text stored at each key
  written,            \* which command on which handle last wrote each key
  reply               \* what the latest setJson / getJson / raw command did

vars == << client, connectionPromise, connectionError, clients, promises,
           waiters, callers, jobs, running, last, handed, expectClosed,
           quietSinceDisc, failWindow, termWindow, observed, fresh,
           bornInDisc, chained, input, store, written, reply >>

codec == << input, store, written, reply >>
mgr   == << client, connectionPromise, connectionError >>
ghost == << handed, expectClosed, quietSinceDisc, failWindow, termWindow,
           observed, fresh >>

\* --------------------------------------------------------- client library
NoMethods   == {}
BaseClient  == [st |-> "connecting", methods |-> NoMethods]
Unused      == [st |-> "unused", methods |-> NoMethods]

\* client?.isOpen: false for null, true from connect() until quit()/disconnect()
isOpen(c) == c # Null /\ clients[c].st \in {"connecting", "open"}

\* createClient hands out the next unused underlying client
FreshClients == {c \in Clients : clients[c].st = "unused"}
createClient == CHOOSE c \in FreshClients : \A d \in FreshClients : c <= d

\* -------------------------------------------------------------- messages
NoMsg == "-"
Step(op, k, kind, h, msg) ==
  [op |-> op, k |-> k, kind |-> kind, h |-> h, msg |-> msg]

\* a caller is idle, awaits the future connect returned, or is suspended
\* inside disconnect on quit() of the captured client `cur`; `snap` keeps the
\* handles getClient had returned when that disconnect was called
Idle == [pc |-> "idle", cur |-> Null, snap |-> {}]

\* microtask jobs: the settle finalizer of attempt p, the resumption of a
\* caller k awaiting future p, the continuation of k's disconnect after quit
Job(t, k, p, e) == [t |-> t, k |-> k, p |-> p, e |-> e]

\* ------------------------------------------------------- structured values
\* A value of the structured encoding: null, a boolean, a number, a string
\* (its characters in p), an array (its elements in kids) or an object (its
\* property names in keys, in insertion order, and their values in kids).
\* Texts are sequences of characters; the literals and the digits stand for
\* themselves, QUOTE and BSLASH for the double quote and the backslash.
MaxLen == 2           \* longest array drawn as an input

JVal(t, p, keys, kids) == [t |-> t, p |-> p, keys |-> keys, kids |-> kids]
JNull      == JVal("null", << >>, << >>, << >>)
JBool(b)   == JVal("bool", << b >>, << >>, << >>)
JNum(d)    == JVal("num", << d >>, << >>, << >>)
JStr(cs)   == JVal("str", cs, << >>, << >>)
JArr(xs)   == JVal("arr", << >>, << >>, xs)
JObj(ks, xs) == JVal("obj", << >>, ks, xs)

Scalars ==
  { JNull, JBool("true"), JBool("false"), JNum("1"),
    JStr(<< "null" >>), JStr(<< "QUOTE" >>) }

\* the elements and property values of the arrays and objects drawn
Elems == { JNull, JNum("1"), JStr(<< "QUOTE" >>) }

SeqsUpTo(S, n) == UNION {[1..m -> S] : m \in 0..n}

FlatArrays  == {JArr(xs) : xs \in SeqsUpTo(Elems, MaxLen)}
FlatObjects ==
  {JObj(<< >>, << >>)}
    \cup {JObj(<< << n >> >>, << x >>) : n \in {"a", "b"}, x \in Elems}
    \cup {JObj(<< << "a" >>, << "b" >> >>, << x, y >>) : x \in Elems, y \in Elems}
Nested ==
  { JArr(<< JArr(<< >>) >>), JArr(<< JObj(<< >>, << >>) >>),
    JArr(<< JArr(<< JNull >>), JBool("false") >>),
    JObj(<< << "a" >> >>, << JArr(<< >>) >>),
    JObj(<< << "a" >> >>, << JObj(<< << "a" >> >>, << JNull >>) >>) }

Values == Scalars \cup FlatArrays \cup FlatObjects \cup Nested

\* the keys of the server and the texts a raw set command stores
Keys     == {"user:1", "user:2"}
Absent   == << "ABSENT" >>
RawTexts == { << "{" >>, << "[", "1", ",", "]" >>, << "QUOTE", "a" >> }

\* ------------------------------------------------------- JSON.stringify
RECURSIVE Escape(_), JoinElems(_, _), JoinMembers(_, _, _), Stringify(_)

Escape(cs) ==
  IF cs = << >> THEN << >>
  ELSE (IF Head(cs) \in {"QUOTE", "BSLASH"}
          THEN << "BSLASH", Head(cs) >>
          ELSE << Head(cs) >>) \o Escape(Tail(cs))

Quoted(cs) == << "QUOTE" >> \o Escape(cs) \o << "QUOTE" >>

JoinElems(xs, i) ==
  IF i > Len(xs) THEN << >>
  ELSE (IF i > 1 THEN << "," >> ELSE << >>)
         \o Stringify(xs[i]) \o JoinElems(xs, i + 1)

JoinMembers(ks, xs, i) ==
  IF i > Len(xs) THEN << >>
  ELSE (IF i > 1 THEN << "," >> ELSE << >>)
         \o Quoted(ks[i]) \o << ":" >> \o Stringify(xs[i])
         \o JoinMembers(ks, xs, i + 1)

\* index.ts:56: JSON.stringify(objectToStore)
Stringify(v) ==
  CASE v.t = "null" -> << "null" >>
    [] v.t = "bool" -> v.p
    [] v.t = "num"  -> v.p
    [] v.t = "str"  -> Quoted(v.p)
    [] v.t = "arr"  -> << "[" >> \o JoinElems(v.kids, 1) \o << "]" >>
    [] v.t = "obj"  -> << "{" >> \o JoinMembers(v.keys, v.kids, 1) \o << "}" >>

\* ----------------------------------------------------------- JSON.parse
Parsed(v, rest) == [ok |-> TRUE, v |-> v, rest |-> rest]
SyntaxError     == [ok |-> FALSE, v |-> JNull, rest |-> << >>]

RECURSIVE ReadChars(_, _), ParseValue(_), ParseElems(_, _), ParseMembers(_, _, _)

\* the characters of a string up to its closing quote
ReadChars(ts, acc) ==
  IF ts = << >> THEN SyntaxError
  ELSE IF Head(ts) = "QUOTE" THEN Parsed(JStr(acc), Tail(ts))
  ELSE IF Head(ts) = "BSLASH"
    THEN IF Len(ts) >= 2 /\ ts[2] \in {"QUOTE", "BSLASH"}
           THEN ReadChars(Tail(Tail(ts)), Append(acc, ts[2]))
           ELSE SyntaxError
  ELSE ReadChars(Tail(ts), Append(acc, Head(ts)))

ParseElems(ts, acc) ==
  LET r == ParseValue(ts) IN
    IF ~ r.ok \/ r.rest = << >> THEN SyntaxError
    ELSE IF Head(r.rest) = "," THEN ParseElems(Tail(r.rest), Append(acc, r.v))
    ELSE IF Head(r.rest) = "]" THEN Parsed(JArr(Append(acc, r.v)), Tail(r.rest))
    ELSE SyntaxError

ParseMembers(ts, ks, xs) ==
  IF ts = << >> \/ Head(ts) # "QUOTE" THEN SyntaxError
  ELSE LET n == ReadChars(Tail(ts), << >>) IN
    IF ~ n.ok \/ n.rest = << >> \/ Head(n.rest) # ":" THEN SyntaxError
    ELSE LET r == ParseValue(Tail(n.rest)) IN
      IF ~ r.ok \/ r.rest = << >> THEN SyntaxError
      ELSE IF Head(r.rest) = ","
        THEN ParseMembers(Tail(r.rest), Append(ks, n.v.p), Append(xs, r.v))
      ELSE IF Head(r.rest) = "}"
        THEN Parsed(JObj(Append(ks, n.v.p), Append(xs, r.v)), Tail(r.rest))
      ELSE SyntaxError

ParseValue(ts) ==
  IF ts = << >> THEN SyntaxError
  ELSE LET c == Head(ts)
           rest == Tail(ts)
       IN CASE c = "null" -> Parsed(JNull, rest)
            [] c \in {"true", "false"} -> Parsed(JBool(c), rest)
            [] c \in {"0", "1"} -> Parsed(JNum(c), rest)
            [] c = "QUOTE" -> ReadChars(rest, << >>)
            [] c = "[" -> IF rest # << >> /\ Head(rest) = "]"
                            THEN Parsed(JArr(<< >>), Tail(rest))
                            ELSE ParseElems(rest, << >>)
            [] c = "{" -> IF rest # << >> /\ Head(rest) = "}"
                            THEN Parsed(JObj(<< >>, << >>), Tail(rest))
                            ELSE ParseMembers(rest, << >>, << >>)
            [] OTHER -> SyntaxError

\* index.ts:77: JSON.parse(jsonString), a SyntaxError on malformed text
Parse(text) ==
  LET r == ParseValue(text) IN
    IF r.ok /\ r.rest = << >> THEN r ELSE SyntaxError

\* ------------------------------------------------------------------ Init
Reply(op, key, h, status, val, why, msg) ==
  [op |-> op, key |-> key, h |-> h, status |-> status, val |-> val,
   why |-> why, msg |-> msg]
NoReply    == Reply("none", "-", Null, "-", JNull, "-", NoMsg)
NotWritten == [by |-> "none", h |-> Null]

\* The futures connect chains to one attempt besides the one it returns:
\* the future of baseClient.connect() (index.ts:144), the one .then derives
\* from it (145), the one .catch derives from that (159) and the one
\* .finally derives from the returned future (170). A future has a
\* rejection handler when a reaction is chained to it: .then is chained to
\* the first and .catch to the second; the other two are dropped.
Chain(handshake, viaThen, viaCatch, viaFinally) ==
  [handshake |-> handshake, viaThen |-> viaThen, viaCatch |-> viaCatch,
   viaFinally |-> viaFinally]
NoChain     == Chain("none", "none", "none", "none")
Chained     == {"handshake", "viaThen", "viaCatch", "viaFinally"}
HasReaction == {"handshake", "viaThen"}

LifecycleInit ==
  /\ client = Null
  /\ connectionPromise = Null
  /\ connectionError = NoError
  /\ clients = [c \in Clients |-> Unused]
  /\ promises = [c \in Clients |-> [st |-> "none", err |-> NoError]]
  /\ waiters = [c \in Clients |-> << >>]
  /\ callers = [k \in Callers |-> Idle]
  /\ jobs = << >>
  /\ running = Null
  /\ last = Step("init", Null, NoMsg, Null, NoMsg)
  /\ handed = {}
  /\ expectClosed = {}
  /\ quietSinceDisc = FALSE
  /\ failWindow = [c |-> Null, e |-> NoError]
  /\ termWindow = FALSE
  /\ observed = [c \in Clients |-> {}]
  /\ fresh = Null
  /\ bornInDisc = {}
  /\ chained = [c \in Clients |-> NoChain]

\* the lifecycle manager alone: the codec is idle and the keyspace empty
Init ==
  /\ LifecycleInit
  /\ input = JNull
  /\ store = [key \in Keys |-> Absent]
  /\ written = [key \in Keys |-> NotWritten]
  /\ reply = NoReply

\* application code of caller k can run now: either it is the caller the
\* current job resumed, or the microtask queue is drained and k enters from
\* the event loop
CanRun(k) ==
  /\ callers[k].pc = "idle"
  /\ \/ jobs = << >>
     \/ running = k

\* ------------------------------------------------------------- getClient
StillConnectingMsg == "Redis client is currently connecting."
NotConnectedMsg == "Redis client is not connected. Call connect() first."

getClientPendingFirst ==
  IF isOpen(client)
    THEN [kind |-> "handle", h |-> client, msg |-> NoMsg]
  ELSE IF connectionPromise # Null
    THEN [kind |-> "StillConnecting", h |-> Null, msg |-> StillConnectingMsg]
  ELSE IF connectionError # NoError
    THEN [kind |-> "Unavailable", h |-> Null, msg |-> connectionError]
  ELSE [kind |-> "NotConnected", h |-> Null, msg |-> NotConnectedMsg]

getClient ==
  IF isOpen(client)
    THEN [kind |-> "handle", h |-> client, msg |-> NoMsg]
  ELSE IF connectionError # NoError
    THEN [kind |-> "Unavailable", h |-> Null, msg |-> connectionError]
  ELSE IF connectionPromise # Null
    THEN [kind |-> "StillConnecting", h |-> Null, msg |-> StillConnectingMsg]
  ELSE [kind |-> "NotConnected", h |-> Null, msg |-> NotConnectedMsg]

GetClientClearsError(k) ==
  /\ CanRun(k)
  /\ LET r == getClient IN
       /\ last' = Step("getClient", k, r.kind, r.h, r.msg)
       /\ handed' = IF r.kind = "handle" THEN handed \cup {r.h} ELSE handed
  /\ connectionError' = NoError
  /\ running' = k
  /\ UNCHANGED << client, connectionPromise, clients, promises, waiters,
                  callers, jobs, expectClosed, quietSinceDisc, failWindow,
                  termWindow, observed, fresh, bornInDisc, chained, codec >>

\* index.ts:188-203
GetClient(k) ==
  /\ CanRun(k)
  /\ LET r == getClient IN
       /\ last' = Step("getClient", k, r.kind, r.h, r.msg)
       /\ handed' = IF r.kind = "handle" THEN handed \cup {r.h} ELSE handed
  /\ UNCHANGED << bornInDisc, chained, codec >>
  /\ running' = k
  /\ UNCHANGED << mgr, clients, promises, waiters, callers, jobs,
                  expectClosed, quietSinceDisc, failWindow, termWindow,
                  observed, fresh >>

\* --------------------------------------------------------------- connect
\* index.ts:95-100: which of the three paths a connect call takes
connectBranchNoCoalesce ==
  IF isOpen(client) THEN "fast" ELSE "new"

connectBranchNoFast ==
  IF connectionPromise # Null THEN "coalesce" ELSE "new"

connectBranch ==
  IF isOpen(client) THEN "fast"
  ELSE IF connectionPromise # Null THEN "coalesce"
  ELSE "new"

\* the caller awaits future p: a reaction on a pending future, a microtask
\* on a settled one
Await(k, p) ==
  IF promises[p].st = "pending"
    THEN /\ waiters' = [waiters EXCEPT ![p] = Append(@, k)]
         /\ jobs' = jobs
    ELSE /\ waiters' = waiters
         /\ jobs' = Append(jobs, Job("resume", k, p, NoError))

ConnectFast(k) ==
  /\ CanRun(k)
  /\ connectBranch = "fast"
  \* Promise.resolve(): a fresh, already fulfilled future (named Null)
  /\ jobs' = Append(jobs, Job("resume", k, Null, NoError))
  /\ callers' = [callers EXCEPT ![k].pc = "await"]
  /\ last' = Step("connect", k, "fast", Null, NoMsg)
  /\ UNCHANGED << bornInDisc, chained, codec >>
  /\ running' = k
  /\ quietSinceDisc' = FALSE
  /\ failWindow' = [c |-> Null, e |-> NoError]
  /\ termWindow' = FALSE
  /\ UNCHANGED << mgr, clients, promises, waiters, handed, expectClosed,
                  observed, fresh >>

ConnectPending(k) ==
  /\ CanRun(k)
  /\ connectBranch = "coalesce"
  /\ Await(k, connectionPromise)
  /\ callers' = [callers EXCEPT ![k].pc = "await"]
  /\ last' = Step("connect", k, "coalesce", connectionPromise, NoMsg)
  /\ UNCHANGED << bornInDisc, chained, codec >>
  /\ running' = k
  /\ quietSinceDisc' = FALSE
  /\ failWindow' = [c |-> Null, e |-> NoError]
  /\ termWindow' = FALSE
  /\ UNCHANGED << mgr, clients, promises, handed, expectClosed, observed,
                  fresh >>

\* index.ts:102: connectionError when a new attempt begins
newAttemptErrorKept == connectionError
newAttemptError == NoError

ConnectNew(k) ==
  /\ CanRun(k)
  /\ connectBranch = "new"
  /\ FreshClients # {}
  /\ LET c == createClient IN
       /\ connectionError' = newAttemptError
       /\ clients' = [clients EXCEPT ![c] = BaseClient]
       /\ promises' = [promises EXCEPT ![c] = [st |-> "pending", err |-> NoError]]
       /\ connectionPromise' = c
       /\ waiters' = [waiters EXCEPT ![c] = << k >>]
       /\ last' = Step("connect", k, "new", c, NoMsg)
       /\ chained' = [chained EXCEPT ![c] =
                        Chain("pending", "pending", "pending", "pending")]
       /\ bornInDisc' = IF \E j \in Callers : callers[j].pc = "inDisc"
                          THEN bornInDisc \cup {c} ELSE bornInDisc
  /\ callers' = [callers EXCEPT ![k].pc = "await"]
  /\ UNCHANGED codec
  /\ running' = k
  /\ quietSinceDisc' = FALSE
  /\ failWindow' = [c |-> Null, e |-> NoError]
  /\ termWindow' = FALSE
  /\ UNCHANGED << client, jobs, handed, expectClosed, observed, fresh >>

\* ---------------------------------------------------- handshake outcome
\* index.ts:151-152: the methods added to the connected client
DecoratedSetOnly == {"setJson"}
Decorated == {"setJson", "getJson"}

\* reactions of a settling future, in registration order: the finalizer
\* registered inside connect first, then the awaiting callers
Reactions(c) ==
  << Job("finally", Null, c, NoError) >>
    \o [i \in 1..Len(waiters[c]) |-> Job("resume", waiters[c][i], c, NoError)]

\* index.ts:156: connectionError after a successful handshake
successErrorKept == connectionError
successError == NoError

\* index.ts:145-158
HandshakeSucceeds(c) ==
  /\ jobs = << >>
  /\ clients[c].st = "connecting"
  /\ clients' = [clients EXCEPT ![c] = [st |-> "open", methods |-> Decorated]]
  /\ client' = c
  /\ connectionError' = successError
  /\ promises' = [promises EXCEPT ![c] = [st |-> "fulfilled", err |-> NoError]]
  /\ jobs' = Reactions(c)
  /\ waiters' = [waiters EXCEPT ![c] = << >>]
  /\ UNCHANGED << bornInDisc, codec >>
  /\ chained' = [chained EXCEPT ![c] =
                   Chain("fulfilled", "fulfilled", "fulfilled", @.viaFinally)]
  /\ running' = Null
  /\ last' = Step("handshakeOk", Null, NoMsg, c, NoMsg)
  /\ fresh' = c
  /\ UNCHANGED << connectionPromise, callers, handed, expectClosed,
                  quietSinceDisc, failWindow, termWindow, observed >>

\* index.ts:159-165
HandshakeFails(c, e) ==
  /\ jobs = << >>
  /\ clients[c].st = "connecting"
  /\ clients' = [clients EXCEPT ![c].st = "failed"]
  /\ client' = Null
  /\ connectionError' = e
  /\ promises' = [promises EXCEPT ![c] = [st |-> "rejected", err |-> e]]
  /\ jobs' = Reactions(c)
  /\ waiters' = [waiters EXCEPT ![c] = << >>]
  /\ UNCHANGED << bornInDisc, codec >>
  /\ chained' = [chained EXCEPT ![c] =
                   Chain("rejected", "rejected", "fulfilled", @.viaFinally)]
  /\ running' = Null
  /\ last' = Step("handshakeFail", Null, NoMsg, c, e)
  /\ failWindow' = [c |-> c, e |-> e]
  /\ fresh' = Null
  /\ UNCHANGED << connectionPromise, callers, handed, expectClosed,
                  quietSinceDisc, termWindow, observed >>

finallyPromiseKept(p) == connectionPromise

\* index.ts:171-173: connectionPromise after the finalizer of attempt p
finallyPromise(p) == IF connectionPromise = p THEN Null ELSE connectionPromise

\* index.ts:170-174
RunFinalizer ==
  /\ jobs # << >>
  /\ Head(jobs).t = "finally"
  /\ connectionPromise' = finallyPromise(Head(jobs).p)
  /\ jobs' = Tail(jobs)
  /\ UNCHANGED << bornInDisc, codec >>
  /\ chained' = [chained EXCEPT ![Head(jobs).p].viaFinally =
                   promises[Head(jobs).p].st]
  /\ running' = Null
  /\ last' = Step("finally", Null, NoMsg, Head(jobs).p, NoMsg)
  /\ UNCHANGED << client, connectionError, clients, promises, waiters,
                  callers, ghost >>

\* a caller awaiting the future connect returned resumes
ResumeCaller ==
  /\ jobs # << >>
  /\ Head(jobs).t = "resume"
  /\ LET k == Head(jobs).k
         p == Head(jobs).p
         st == IF p = Null THEN "fulfilled" ELSE promises[p].st
         e  == IF p = Null THEN NoError ELSE promises[p].err
     IN /\ callers' = [callers EXCEPT ![k].pc = "idle"]
        /\ running' = k
        /\ last' = Step("resume", k, st, p, e)
        /\ observed' = IF p = Null THEN observed
                       ELSE [observed EXCEPT ![p] = @ \cup {<< st, e >>}]
  /\ jobs' = Tail(jobs)
  /\ UNCHANGED << bornInDisc, chained, codec >>
  /\ UNCHANGED << mgr, clients, promises, waiters, handed, expectClosed,
                  quietSinceDisc, failWindow, termWindow, fresh >>

\* ------------------------------------------------------- client events
\* index.ts:124: client after the 'error' observer
erroredClientKept == client
erroredClient == Null

\* index.ts:121-125
ErrorEvent(c, e) ==
  /\ jobs = << >>
  /\ clients[c].st \in {"connecting", "open", "quitting"}
  /\ connectionError' = e
  /\ client' = erroredClient
  /\ termWindow' = IF client = c /\ clients[c].st = "open" THEN TRUE ELSE termWindow
  /\ UNCHANGED << bornInDisc, chained, codec >>
  /\ running' = Null
  /\ last' = Step("error", Null, NoMsg, c, e)
  /\ fresh' = Null
  /\ UNCHANGED << connectionPromise, clients, promises, waiters, callers,
                  jobs, handed, expectClosed, quietSinceDisc, failWindow,
                  observed >>

endPromiseUnguarded(c) == Null

\* index.ts:130-142: the module state after the 'end' observer of client c
endPromise(c) == IF connectionPromise = c THEN Null ELSE connectionPromise
endErrorUnconditional ==
  IF connectionError = NoError THEN ClosedMsg ELSE connectionError

\* index.ts:132, 139-141: connectionError after the 'end' observer
endError ==
  IF client # Null /\ connectionError = NoError THEN ClosedMsg ELSE connectionError

\* the application closes a handle it holds (handle.disconnect()), which
\* emits 'end' synchronously
EndEvent(k, c) ==
  /\ CanRun(k)
  /\ c \in handed
  /\ clients[c].st = "open"
  /\ clients' = [clients EXCEPT ![c].st = "closed"]
  /\ client' = Null
  /\ connectionPromise' = endPromise(c)
  /\ connectionError' = endError
  /\ termWindow' = IF client = c THEN TRUE ELSE termWindow
  /\ UNCHANGED << bornInDisc, chained, codec >>
  /\ running' = k
  /\ last' = Step("end", k, NoMsg, c, NoMsg)
  /\ fresh' = Null
  /\ UNCHANGED << promises, waiters, callers, jobs, handed, expectClosed,
                  quietSinceDisc, failWindow, observed >>

\* ------------------------------------------------------------ disconnect
\* index.ts:215-222: quit() is called on the captured open client
DisconnectQuit(k) ==
  /\ CanRun(k)
  /\ isOpen(client)
  /\ connectionPromise' = Null
  /\ clients' = [clients EXCEPT ![client].st = "quitting"]
  /\ callers' = [callers EXCEPT ![k] = [pc |-> "inDisc", cur |-> client, snap |-> handed]]
  /\ UNCHANGED << bornInDisc, chained, codec >>
  /\ running' = k
  /\ last' = Step("disconnect", k, "quit", client, NoMsg)
  /\ failWindow' = [c |-> Null, e |-> NoError]
  /\ termWindow' = FALSE
  /\ fresh' = Null
  /\ UNCHANGED << client, connectionError, promises, waiters, jobs, handed,
                  expectClosed, quietSinceDisc, observed >>

\* index.ts:238: connectionError after a disconnect that found no open client
idleErrorKept == connectionError
idleError == NoError

\* index.ts:215-217, 235-239: no open client was captured
DisconnectIdle(k) ==
  /\ CanRun(k)
  /\ ~ isOpen(client)
  /\ connectionPromise' = Null
  /\ client' = Null
  /\ connectionError' = idleError
  /\ UNCHANGED << bornInDisc, chained, codec >>
  /\ running' = k
  /\ last' = Step("disconnect", k, "noop", Null, NoMsg)
  /\ failWindow' = [c |-> Null, e |-> NoError]
  /\ termWindow' = FALSE
  /\ quietSinceDisc' = TRUE
  /\ expectClosed' = expectClosed \cup handed
  /\ fresh' = Null
  /\ UNCHANGED << clients, promises, waiters, callers, jobs, handed, observed >>

\* the caller suspended in disconnect on quit() of client c
Quitter(c) == CHOOSE k \in Callers : callers[k].pc = "inDisc" /\ callers[k].cur = c

\* quit() succeeds: the client emits 'end' and the awaited future is fulfilled
QuitSucceeds(c) ==
  /\ jobs = << >>
  /\ clients[c].st = "quitting"
  /\ clients' = [clients EXCEPT ![c].st = "closed"]
  /\ client' = Null
  /\ connectionPromise' = endPromise(c)
  /\ connectionError' = endError
  /\ jobs' = << Job("disconnect", Quitter(c), Null, NoError) >>
  /\ UNCHANGED << bornInDisc, chained, codec >>
  /\ running' = Null
  /\ last' = Step("quitOk", Null, NoMsg, c, NoMsg)
  /\ fresh' = Null
  /\ UNCHANGED << promises, waiters, callers, handed, expectClosed,
                  quietSinceDisc, failWindow, termWindow, observed >>

\* quit() fails with error e: the awaited future is rejected
QuitFails(c, e) ==
  /\ jobs = << >>
  /\ clients[c].st = "quitting"
  /\ clients' = [clients EXCEPT ![c].st = "closed"]
  /\ jobs' = << Job("disconnect", Quitter(c), Null, e) >>
  /\ UNCHANGED << bornInDisc, chained, codec >>
  /\ running' = Null
  /\ last' = Step("quitFail", Null, NoMsg, c, e)
  /\ fresh' = Null
  /\ UNCHANGED << mgr, promises, waiters, callers, handed, expectClosed,
                  quietSinceDisc, failWindow, termWindow, observed >>

\* index.ts:231: connectionError.message.includes('disconnection')
includesDisconnection(m) == m \in {"Error during disconnection"}

settledErrorKept(e) == IF e # NoError THEN e ELSE connectionError

\* index.ts:223-234: connectionError after the catch (when quit failed with
\* e) and the finally block
settledError(e) ==
  LET afterCatch == IF e # NoError THEN e ELSE connectionError
  IN IF afterCatch # NoError /\ includesDisconnection(afterCatch)
       THEN afterCatch
       ELSE NoError

\* index.ts:226, 229: client after the catch and finally blocks
settledClientKept == client
settledClient == Null

\* index.ts:223-234: disconnect resumes after quit() and settles
DisconnectSettles ==
  /\ jobs # << >>
  /\ Head(jobs).t = "disconnect"
  /\ LET k == Head(jobs).k
         e == Head(jobs).e
     IN /\ client' = settledClient
        /\ connectionError' = settledError(e)
        /\ callers' = [callers EXCEPT ![k] = Idle]
        /\ running' = k
        /\ last' = Step("disconnected", k,
                        IF e = NoError THEN "fulfilled" ELSE "rejected",
                        callers[k].cur, e)
        /\ expectClosed' = expectClosed \cup callers[k].snap
  /\ quietSinceDisc' = TRUE
  /\ jobs' = Tail(jobs)
  /\ UNCHANGED << bornInDisc, chained, codec >>
  /\ fresh' = Null
  /\ UNCHANGED << connectionPromise, clients, promises, waiters, handed,
                  failWindow, termWindow, observed >>

\* ------------------------------------------------------------------ Next
Next ==
  \/ \E k \in Callers : GetClient(k)
  \/ \E k \in Callers : ConnectFast(k)
  \/ \E k \in Callers : ConnectPending(k)
  \/ \E k \in Callers : ConnectNew(k)
  \/ \E c \in Clients : HandshakeSucceeds(c)
  \/ \E c \in Clients, e \in HandshakeErrors : HandshakeFails(c, e)
  \/ RunFinalizer
  \/ ResumeCaller
  \/ \E c \in Clients, e \in SocketErrors : ErrorEvent(c, e)
  \/ \E k \in Callers, c \in Clients : EndEvent(k, c)
  \/ \E k \in Callers : DisconnectQuit(k)
  \/ \E k \in Callers : DisconnectIdle(k)
  \/ \E c \in Clients : QuitSucceeds(c)
  \/ \E c \in Clients, e \in QuitErrors : QuitFails(c, e)
  \/ DisconnectSettles

Spec == Init /\ [][Next]_vars

\* The event loop runs the job at the head of the microtask queue; the
\* application does not keep the queue busy forever, so the loop gets to
\* the I/O events; and the handshake of every attempt eventually succeeds
\* or fails.
Settles(c) ==
  \/ HandshakeSucceeds(c)
  \/ \E e \in HandshakeErrors : HandshakeFails(c, e)

Fairness ==
  /\ WF_vars(RunFinalizer)
  /\ WF_vars(ResumeCaller)
  /\ WF_vars(DisconnectSettles)
  /\ []<>(jobs = << >>)
  /\ \A c \in Clients : SF_vars(Settles(c))

FairSpec == Init /\ [][Next]_vars /\ Fairness

\* ================================================================= codec
\* The commands of a handle reach the server only while the handle is open;
\* on a closed handle the library rejects them, and on an open one the
\* socket may fail before the server has run the command.
ClientClosedMsg == "The client is closed"
OK == JStr(<< "O", "K" >>)

\* a value JSON.stringify cannot serialize (an object that contains itself)
Cyclic      == JVal("cyclic", << >>, << >>, << >>)
CircularMsg == "Converting circular structure to JSON"
Serializable(v) == v.t # "cyclic"

\* index.ts:56
setJsonImpl(objectToStore) == Stringify(objectToStore)

writeFailureSwallowed(error) == [status |-> "ok", val |-> JNull, msg |-> NoMsg]

\* index.ts:59-62: the catch block logs the error and rethrows it
writeFailure(error) == [status |-> "rejected", val |-> JNull, msg |-> error]

\* index.ts:48-63: setJson(key, objectToStore) on handle h, without options.
\* The server runs the SET and the awaiting caller receives its reply; last
\* records the error JSON.stringify or this.set raised, reply what the
\* caller of setJson received.
SetJson(k, h, key) ==
  /\ CanRun(k)
  /\ h \in handed
  /\ \/ /\ ~ Serializable(input)
        /\ LET f == writeFailure(CircularMsg) IN
             reply' = Reply("setJson", key, h, f.status, f.val, "serialize", f.msg)
        /\ last' = Step("setJson", k, "serialize", h, CircularMsg)
        /\ UNCHANGED << store, written >>
     \/ /\ Serializable(input)
        /\ isOpen(h)
        /\ store' = [store EXCEPT ![key] = setJsonImpl(input)]
        /\ written' = [written EXCEPT ![key] = [by |-> "setJson", h |-> h]]
        /\ reply' = Reply("setJson", key, h, "ok", OK, "stored", NoMsg)
        /\ last' = Step("setJson", k, "stored", h, NoMsg)
     \/ /\ Serializable(input)
        /\ isOpen(h)
        /\ \E e \in SocketErrors :
             /\ LET f == writeFailure(e) IN
                  reply' = Reply("setJson", key, h, f.status, f.val, "socket", f.msg)
             /\ last' = Step("setJson", k, "socket", h, e)
        /\ UNCHANGED << store, written >>
     \/ /\ Serializable(input)
        /\ ~ isOpen(h)
        /\ LET f == writeFailure(ClientClosedMsg) IN
             reply' = Reply("setJson", key, h, f.status, f.val, "closed", f.msg)
        /\ last' = Step("setJson", k, "closed", h, ClientClosedMsg)
        /\ UNCHANGED << store, written >>
  /\ running' = k
  /\ UNCHANGED << mgr, clients, promises, waiters, callers, jobs, ghost,
                  bornInDisc, chained, input >>

getJsonImplAbsentThrows(jsonString) ==
  IF jsonString = Absent
    THEN [status |-> "rejected", val |-> JNull, why |-> "absent"]
  ELSE LET r == Parse(jsonString) IN
    IF r.ok THEN [status |-> "ok", val |-> r.v, why |-> "parsed"]
    ELSE [status |-> "ok", val |-> JNull, why |-> "corrupt"]

getJsonImplUnparsed(jsonString) ==
  IF jsonString = Absent
    THEN [status |-> "ok", val |-> JNull, why |-> "absent"]
  ELSE [status |-> "ok", val |-> JStr(jsonString), why |-> "parsed"]

getJsonImplParseThrows(jsonString) ==
  IF jsonString = Absent
    THEN [status |-> "ok", val |-> JNull, why |-> "absent"]
  ELSE LET r == Parse(jsonString) IN
    IF r.ok THEN [status |-> "ok", val |-> r.v, why |-> "parsed"]
    ELSE [status |-> "rejected", val |-> JNull, why |-> "corrupt"]

\* index.ts:72-81: what getJson makes of the text this.get returned
getJsonImpl(jsonString) ==
  IF jsonString = Absent
    THEN [status |-> "ok", val |-> JNull, why |-> "absent"]
  ELSE LET r == Parse(jsonString) IN
    IF r.ok THEN [status |-> "ok", val |-> r.v, why |-> "parsed"]
    ELSE [status |-> "ok", val |-> JNull, why |-> "corrupt"]

readFailureSwallowed(error) == [status |-> "ok", val |-> JNull, msg |-> NoMsg]

\* index.ts:70: this.get is awaited outside the try block, so its rejection
\* is the rejection of getJson
readFailure(error) == [status |-> "rejected", val |-> JNull, msg |-> error]

\* index.ts:65-82: getJson(key) on handle h; last records the error this.get
\* raised, reply what the caller of getJson received.
GetJson(k, h, key) ==
  /\ CanRun(k)
  /\ h \in handed
  /\ \/ /\ isOpen(h)
        /\ LET r == getJsonImpl(store[key]) IN
             reply' = Reply("getJson", key, h, r.status, r.val, r.why, NoMsg)
        /\ last' = Step("getJson", k, reply'.why, h, NoMsg)
     \/ /\ isOpen(h)
        /\ \E e \in SocketErrors :
             /\ LET f == readFailure(e) IN
                  reply' = Reply("getJson", key, h, f.status, f.val, "socket", f.msg)
             /\ last' = Step("getJson", k, "socket", h, e)
     \/ /\ ~ isOpen(h)
        /\ LET f == readFailure(ClientClosedMsg) IN
             reply' = Reply("getJson", key, h, f.status, f.val, "closed", f.msg)
        /\ last' = Step("getJson", k, "closed", h, ClientClosedMsg)
  /\ running' = k
  /\ UNCHANGED << mgr, clients, promises, waiters, callers, jobs, ghost,
                  bornInDisc, chained, input, store, written >>

\* index.test.ts:197: the base client's own set stores a text as it is
RawSet(k, h, key, text) ==
  /\ CanRun(k)
  /\ h \in handed
  /\ isOpen(h)
  /\ store' = [store EXCEPT ![key] = text]
  /\ written' = [written EXCEPT ![key] = [by |-> "set", h |-> h]]
  /\ reply' = Reply("set", key, h, "ok", OK, "stored", NoMsg)
  /\ last' = Step("set", k, "ok", h, NoMsg)
  /\ running' = k
  /\ UNCHANGED << mgr, clients, promises, waiters, callers, jobs, ghost,
                  bornInDisc, chained, input >>

\* the codec on the handles of the lifecycle manager, for every value a
\* caller may hand to setJson
CodecInit ==
  /\ LifecycleInit
  /\ input \in Values
  /\ store = [key \in Keys |-> Absent]
  /\ written = [key \in Keys |-> NotWritten]
  /\ reply = NoReply

CodecNext ==
  \/ \E k \in Callers : ConnectNew(k)
  \/ \E c \in Clients : HandshakeSucceeds(c)
  \/ RunFinalizer
  \/ ResumeCaller
  \/ \E k \in Callers : GetClient(k)
  \/ \E k \in Callers, h \in Clients, key \in Keys : SetJson(k, h, key)
  \/ \E k \in Callers, h \in Clients, key \in Keys : GetJson(k, h, key)
  \/ \E k \in Callers, h \in Clients, key \in Keys, text \in RawTexts :
       RawSet(k, h, key, text)

CodecSpec == CodecInit /\ [][CodecNext]_vars

\* the codec while handles are closed by disconnect and replaced by new
\* ones, for a value that serializes and one that does not
FailureInputs == { JObj(<< << "a" >> >>, << JNull >>), Cyclic }

CodecFailureInit ==
  /\ LifecycleInit
  /\ input \in FailureInputs
  /\ store = [key \in Keys |-> Absent]
  /\ written = [key \in Keys |-> NotWritten]
  /\ reply = NoReply

CodecFailureNext ==
  \/ \E k \in Callers : ConnectNew(k)
  \/ \E c \in Clients : HandshakeSucceeds(c)
  \/ RunFinalizer
  \/ ResumeCaller
  \/ \E k \in Callers : GetClient(k)
  \/ \E k \in Callers, h \in Clients, key \in Keys : SetJson(k, h, key)
  \/ \E k \in Callers, h \in Clients, key \in Keys : GetJson(k, h, key)
  \/ \E k \in Callers : DisconnectQuit(k)
  \/ \E c \in Clients : QuitSucceeds(c)
  \/ DisconnectSettles

CodecFailureSpec == CodecFailureInit /\ [][CodecFailureNext]_vars

\* ================================================================ claims
InFlight == {c \in Clients : clients[c].st = "connecting"}
Live     == {c \in Clients : clients[c].st \in {"connecting", "open"}}

\* C1: a connect call made while no open handle is active and an attempt is
\* registered returns the future stored in connectionPromise, creates no
\* client and starts no handshake; the callers awaiting one attempt's
\* future all observe one and the same outcome.
C1_AttemptCoalescing ==
  /\ [][ (last'.op = "connect" /\ ~ isOpen(client) /\ connectionPromise # Null)
           => /\ last'.kind = "coalesce"
              /\ last'.h = connectionPromise
              /\ clients' = clients
              /\ promises' = promises
              /\ mgr' = mgr ]_vars
  /\ [](\A p \in Clients : Cardinality(observed[p]) <= 1)

C1_Witness ==
  /\ last.op = "connect"
  /\ last.kind = "coalesce"
  /\ Len(waiters[last.h]) = 2
  /\ InFlight = {last.h}

\* C2: at most one underlying client created by the manager is open or has
\* a handshake in flight.
C2_SingleConnection == Cardinality(Live) <= 1

\* C3: a connect call made while the active handle is open returns an
\* already fulfilled future and changes nothing: no client is created, no
\* handshake started, client / connectionPromise / connectionError keep
\* their values and getClient returns the same handle before and after.
C3_IdempotentConnect ==
  [][ (last'.op = "connect" /\ isOpen(client))
        => /\ last'.kind = "fast"
           /\ jobs' = Append(jobs, Job("resume", last'.k, Null, NoError))
           /\ clients' = clients
           /\ promises' = promises
           /\ mgr' = mgr
           /\ getClient.kind = "handle"
           /\ getClient' = getClient ]_vars

C3_Witness ==
  /\ last.op = "connect"
  /\ last.kind = "fast"
  /\ isOpen(client)
  /\ jobs # << >>

\* C4: the outcome of getClient follows the priority open handle, then
\* recorded error (Unavailable carrying its message), then registered
\* attempt (StillConnecting), then NotConnected; before any connect it is
\* NotConnected.
C4_GetClientPriority ==
  /\ [][ last'.op = "getClient"
           => /\ isOpen(client)
                   => last'.kind = "handle" /\ last'.h = client
              /\ (~ isOpen(client) /\ connectionError # NoError)
                   => last'.kind = "Unavailable" /\ last'.msg = connectionError
              /\ (~ isOpen(client) /\ connectionError = NoError
                    /\ connectionPromise # Null)
                   => last'.kind = "StillConnecting"
              /\ (~ isOpen(client) /\ connectionError = NoError
                    /\ connectionPromise = Null)
                   => last'.kind = "NotConnected" ]_vars
  /\ []((last.op = "getClient" /\ FreshClients = Clients)
           => last.kind = "NotConnected")

C4_Witness ==
  /\ last.op = "getClient"
  /\ last.kind = "Unavailable"
  /\ connectionPromise # Null
  /\ last.msg \in SocketErrors

\* C5: while an attempt's handshake is in flight every getClient call
\* throws StillConnecting.
C5_StillConnectingWhileInFlight ==
  (last.op = "getClient" /\ InFlight # {}) => last.kind = "StillConnecting"

\* C6 as stated: whenever a caller awaiting a fulfilled connect future
\* resumes, the active handle is the open, decorated client of that attempt,
\* connectionError is null and getClient returns that handle.
C6_ResumeSeesHandle ==
  (last.op = "resume" /\ last.kind = "fulfilled" /\ last.h # Null)
    => /\ client = last.h
       /\ isOpen(client)
       /\ clients[last.h].methods = Decorated
       /\ connectionError = NoError
       /\ getClient = [kind |-> "handle", h |-> last.h, msg |-> NoMsg]

\* C6 amended: the same holds for every awaiting caller that resumes while
\* nothing but the attempt's finalizer, resumptions of earlier awaiting
\* callers and their connect / getClient calls has run since the handshake
\* succeeded; and a getClient call directly following one that returned a
\* handle returns the identical handle.
C6_ResumeSeesHandleUndisturbed ==
  /\ []((last.op = "resume" /\ last.kind = "fulfilled" /\ last.h # Null
           /\ fresh = last.h)
         => /\ client = last.h
            /\ isOpen(client)
            /\ clients[last.h].methods = Decorated
            /\ connectionError = NoError
            /\ getClient = [kind |-> "handle", h |-> last.h, msg |-> NoMsg])
  /\ [][ (last.op = "getClient" /\ last.kind = "handle" /\ last'.op = "getClient")
           => last'.kind = "handle" /\ last'.h = last.h ]_vars

C6_Witness ==
  /\ last.op = "resume"
  /\ last.kind = "fulfilled"
  /\ last.h # Null
  /\ fresh = last.h
  /\ observed[last.h] = {<< "fulfilled", NoError >>}
  /\ jobs = << >>
  /\ \A k \in Callers : callers[k].pc = "idle"

\* C7: when an attempt's handshake fails with e its future is rejected
\* with e, client is null and connectionError is e; until the next connect
\* or disconnect call every getClient call throws Unavailable carrying e.
C7_ConnectFailure ==
  /\ last.op = "handshakeFail"
       => /\ promises[last.h] = [st |-> "rejected", err |-> last.msg]
          /\ client = Null
          /\ connectionError = last.msg
  /\ (failWindow.c # Null /\ last.op = "getClient")
       => last.kind = "Unavailable" /\ last.msg = failWindow.e

\* C8: when the established connection receives an unsolicited error or end
\* event, client becomes null and connectionError non-null; until the next
\* connect or disconnect call every getClient call throws Unavailable.
C8_UnsolicitedTermination ==
  /\ (last.op \in {"error", "end"} /\ termWindow)
       => client = Null /\ connectionError # NoError
  /\ (termWindow /\ last.op = "getClient")
       => last.kind = "Unavailable" /\ last.msg = connectionError

\* C9: once a disconnect call has completed and no connect call was issued
\* since, getClient throws Unavailable or NotConnected.
C9_NoHandleAfterDisconnect ==
  (quietSinceDisc /\ last.op = "getClient")
    => last.kind \in {"Unavailable", "NotConnected"}

\* C10: once a disconnect call has completed, every handle getClient had
\* returned before that call is closed.
C10_OldHandlesClosed ==
  \A h \in expectClosed : ~ isOpen(h)

\* C11: a disconnect call made while no open handle is active resolves at
\* once without error, starts no quit, and leaves client, connectionPromise
\* and connectionError all null.
C11_DisconnectNoop ==
  [][ (last'.op = "disconnect" /\ ~ isOpen(client))
        => /\ last'.kind = "noop"
           /\ client' = Null
           /\ connectionPromise' = Null
           /\ connectionError' = NoError
           /\ clients' = clients
           /\ callers'[last'.k].pc = "idle"
           /\ jobs' = jobs ]_vars

C11_Witness ==
  /\ last.op = "disconnect"
  /\ last.kind = "noop"
  /\ \E c \in Clients : clients[c].st = "failed"
  /\ mgr = << Null, Null, NoError >>

\* C12: when quit() of the captured open handle fails with error e, the
\* future disconnect returned is rejected with e, and client is null once
\* disconnect has settled.
C12_DisconnectFailureSurfaced ==
  [][ (jobs # << >> /\ Head(jobs).t = "disconnect" /\ Head(jobs).e # NoError
         /\ last'.op = "disconnected")
        => /\ last'.kind = "rejected"
           /\ last'.msg = Head(jobs).e
           /\ client' = Null ]_vars

C12_Witness ==
  /\ last.op = "disconnected"
  /\ last.kind = "rejected"
  /\ last.msg \in QuitErrors
  /\ client = Null

\* C13: when quit() fails with error e, connectionError equals e after
\* disconnect has settled, for every e.
C13_DisconnectFailureRemembered ==
  (last.op = "disconnected" /\ last.kind = "rejected")
    => connectionError = last.msg

\* C14: except while a handshake success is being processed (the attempt's
\* finalizer is the next job), client and connectionPromise are not both
\* non-null.
C14_InvariantI1 ==
  (client # Null /\ connectionPromise # Null)
    => /\ connectionPromise = client
       /\ jobs # << >>
       /\ Head(jobs) = Job("finally", Null, client, NoError)

\* C15: a handle published by an attempt that a connect call started while
\* a disconnect was suspended in quit() stays the active handle when that
\* disconnect completes and when the old connection ends.
C15_ConcurrentConnectKeepsHandle ==
  [][ (client \in bornInDisc /\ isOpen(client)
         /\ last'.op \in {"quitOk", "quitFail", "disconnected"})
        => client' = client ]_vars

\* C16: getClient, whether it returns or throws, leaves client,
\* connectionPromise and connectionError unchanged, creates no client and
\* starts no handshake.
C16_GetClientPure ==
  [][ last'.op = "getClient"
        => /\ mgr' = mgr
           /\ clients' = clients
           /\ promises' = promises
           /\ waiters' = waiters
           /\ jobs' = jobs ]_vars

C16_Witness ==
  /\ last.op = "getClient"
  /\ last.kind = "Unavailable"
  /\ last.msg \in HandshakeErrors
  /\ connectionError = last.msg
  /\ connectionPromise = Null

\* C17: connectionError is null right after connect begins a new attempt
\* and right after a handshake succeeds, and non-null right after a
\* handshake fails.
C17_InvariantI2 ==
  /\ (last.op = "connect" /\ last.kind = "new") => connectionError = NoError
  /\ last.op = "handshakeOk" => connectionError = NoError
  /\ last.op = "handshakeFail" => connectionError # NoError

C17_Witness ==
  /\ last.op = "connect"
  /\ last.kind = "new"
  /\ connectionError = NoError
  /\ \E c \in Clients : clients[c].st = "failed"

\* C18: whenever client is non-null it carries both setJson and getJson,
\* and so does every handle getClient returns.
C18_InvariantI3 ==
  /\ client # Null => {"setJson", "getJson"} \subseteq clients[client].methods
  /\ (last.op = "getClient" /\ last.kind = "handle")
       => {"setJson", "getJson"} \subseteq clients[last.h].methods

C18_Witness ==
  /\ last.op = "getClient"
  /\ last.kind = "handle"
  /\ client = last.h
  /\ clients[client].methods = {"setJson", "getJson"}

\* the server ran the command of the latest codec call and answered it
Answered == reply.why \notin {"closed", "socket"}

\* C19: for every key and every value, a getJson of a key whose latest
\* write was a setJson of that value on the same open handle returns a
\* value equal to it in every part.
C19_CodecRoundTrip ==
  (reply.op = "getJson" /\ Answered
     /\ written[reply.key] = [by |-> "setJson", h |-> reply.h])
    => /\ reply.status = "ok"
       /\ reply.val = input

C19_Witness ==
  /\ reply.op = "getJson"
  /\ reply.why = "parsed"
  /\ written[reply.key] = [by |-> "setJson", h |-> reply.h]
  /\ input = JStr(<< "QUOTE" >>)
  /\ reply.val = input
  /\ \E key \in Keys : written[key].by = "set"

\* C20: getJson of a key the server reports absent returns null and does
\* not throw.
C20_AbsentKey ==
  (reply.op = "getJson" /\ Answered /\ store[reply.key] = Absent)
    => /\ reply.status = "ok"
       /\ reply.val = JNull

C20_Witness ==
  /\ reply.op = "getJson"
  /\ reply.status = "ok"
  /\ reply.val = JNull
  /\ reply.why = "absent"
  /\ store[reply.key] = Absent
  /\ input # JNull
  /\ \E key \in Keys : written[key].by = "setJson"

\* C21: getJson of a key whose stored text does not parse returns null and
\* does not throw, and leaves the stored text as it was.
C21_CorruptDataTolerated ==
  [][ (last'.op = "getJson" /\ last'.msg = NoMsg
         /\ store[reply'.key] # Absent
         /\ ~ Parse(store[reply'.key]).ok)
        => /\ reply'.status = "ok"
           /\ reply'.val = JNull
           /\ store' = store ]_vars

C21_Witness ==
  /\ reply.op = "getJson"
  /\ reply.status = "ok"
  /\ reply.why = "corrupt"
  /\ reply.val = JNull
  /\ store[reply.key] \in RawTexts
  /\ written[reply.key].by = "set"

\* C22: when JSON.stringify or the underlying set command fails with an
\* error, setJson rejects with that error and the store is left as it was.
C22_SetJsonPropagates ==
  [][ (last'.op = "setJson" /\ last'.msg # NoMsg)
        => /\ reply'.status = "rejected"
           /\ reply'.msg = last'.msg
           /\ store' = store ]_vars

C22_Witness ==
  /\ last.op = "setJson"
  /\ last.kind = "closed"
  /\ reply.status = "rejected"
  /\ reply.msg = ClientClosedMsg
  /\ clients[reply.h].st \in {"quitting", "closed"}
  /\ Serializable(input)
  /\ store[reply.key] = Absent

\* C23: when the underlying get command fails with an error, getJson
\* rejects with that error and does not return null.
C23_GetJsonPropagates ==
  (last.op = "getJson" /\ last.msg # NoMsg)
    => /\ reply.status = "rejected"
       /\ reply.msg = last.msg

C23_Witness ==
  /\ last.op = "getJson"
  /\ last.kind = "closed"
  /\ reply.status = "rejected"
  /\ reply.msg = ClientClosedMsg
  /\ clients[reply.h].st \in {"quitting", "closed"}
  /\ store[reply.key] # Absent

\* C24: the settle finalizer and the end observer of attempt A change
\* connectionPromise only from A to null; when the slot holds a newer
\* attempt B, the settling or the ending of A leaves it equal to B.
C24_CompareAndClear ==
  [][ last'.op \in {"finally", "end", "quitOk"}
        => \/ connectionPromise' = connectionPromise
           \/ /\ connectionPromise = last'.h
              /\ connectionPromise' = Null ]_vars

C24_Witness ==
  /\ last.op \in {"end", "quitOk"}
  /\ connectionPromise # Null
  /\ connectionPromise # last.h
  /\ promises[last.h].st = "fulfilled"
  /\ clients[connectionPromise].st = "connecting"

\* C25: when every handshake eventually succeeds or fails, the future of
\* every attempt eventually settles, and an attempt stored in
\* connectionPromise is eventually removed from it.
C25_AttemptSlotLiveness ==
  \A c \in Clients :
    /\ (promises[c].st = "pending")
         ~> (promises[c].st \in {"fulfilled", "rejected"})
    /\ (connectionPromise = c) ~> (connectionPromise # c)

C25_Witness ==
  /\ last.op = "finally"
  /\ promises[last.h].st = "rejected"
  /\ connectionPromise = Null
  /\ \A c \in Clients : promises[c].st # "pending"

\* C26: when a caller observes the rejection of a connect future,
\* connectionPromise does not hold that attempt; a connect call issued
\* after a failed attempt, with no connect or disconnect call in between,
\* clears connectionError, creates a new client and returns its new future.
C26_RetryAfterFailure ==
  [][ /\ (last'.op = "resume" /\ last'.kind = "rejected")
           => connectionPromise' # last'.h
      /\ (last'.op = "connect" /\ failWindow.c # Null)
           => /\ last'.kind = "new"
              /\ last'.h # failWindow.c
              /\ clients[last'.h].st = "unused"
              /\ clients'[last'.h].st = "connecting"
              /\ connectionPromise' = last'.h
              /\ promises'[last'.h].st = "pending"
              /\ connectionError' = NoError ]_vars

\* C27: an end event sets client to null; it sets connectionError to the
\* "connection closed" error when a client was published and connectionError
\* was null, and leaves connectionError as it was otherwise.
C27_EndObserver ==
  [][ last'.op \in {"end", "quitOk"}
        => /\ client' = Null
           /\ connectionError' =
                IF client # Null /\ connectionError = NoError
                  THEN ClosedMsg
                  ELSE connectionError ]_vars

C27_Witness ==
  /\ last.op = "end"
  /\ client = Null
  /\ connectionError = ClosedMsg
  /\ clients[last.h].st = "closed"

\* C28: when quit() has succeeded and disconnect resolves, client is null
\* and connectionError is null, whatever the end event or an error event
\* recorded meanwhile, unless its message contains 'disconnection'.
C28_SuccessfulDisconnect ==
  [][ (last'.op = "disconnected" /\ last'.kind = "fulfilled")
        => /\ client' = Null
           /\ \/ connectionError' = NoError
              \/ /\ includesDisconnection(connectionError)
                 /\ connectionError' = connectionError ]_vars

C28_Witness ==
  /\ last.op = "disconnected"
  /\ last.kind = "fulfilled"
  /\ client = Null
  /\ connectionError = NoError
  /\ clients[last.h].st = "closed"

\* C29: in every state client non-null implies connectionError null; a
\* step that sets connectionError to an error leaves client null, and a
\* step that publishes a client leaves connectionError null.
C29_HandleImpliesNoError ==
  [][ /\ client' # Null => connectionError' = NoError
      /\ (connectionError' # connectionError /\ connectionError' # NoError)
           => client' = Null
      /\ (client' # client /\ client' # Null)
           => connectionError' = NoError ]_vars

C29_Witness ==
  /\ last.op = "handshakeOk"
  /\ client = last.h
  /\ connectionError = NoError
  /\ \E c \in Clients : clients[c].st = "failed"

\* C30: while client X is published, an error or end event of a different
\* client Y, created by an earlier connect call, leaves client equal to X
\* and connectionError as it was.
C30_StaleClientEvents ==
  [][ (last'.op \in {"error", "end", "quitOk"}
         /\ client # Null /\ last'.h < client)
        => /\ client' = client
           /\ connectionError' = connectionError ]_vars

\* C31: no future the manager chains to an attempt ends rejected without a
\* rejection handler: a rejected future other than the one connect returns
\* has a reaction chained to it.
C31_NoUnhandledRejection ==
  \A c \in Clients : \A f \in Chained :
    chained[c][f] = "rejected" => f \in HasReaction

====
